---------------------------- MODULE Spec2Model ----------------------------
(***************************************************************************)
(* Model of src/main.py: an interactive Modbus register client.            *)
(*                                                                         *)
(* The program keeps a static register map (registers), converts between   *)
(* pairs of 16-bit holding-register words and typed values (read_uint32,   *)
(* read_float, write_uint32, write_float), reads every register in one     *)
(* batch (read_all_values), edits one register per request (change_value), *)
(* writes power and state together (control_heating) and drives all of it  *)
(* from a menu loop (main).                                                *)
(*                                                                         *)
(* TLC's integers are 32 bits wide and Python's are unbounded, so a Python *)
(* int v is held as two limbs: [hi |-> v >> 16, lo |-> v & 0xFFFF], that   *)
(* is v = hi * 65536 + lo with 0 <= lo < 65536 and hi of either sign.      *)
(* A Python float is held either as the short decimal literal it was       *)
(* parsed from (kind "dec": (-1)^neg * num / den) or, when it came out of  *)
(* struct.unpack('>f'), as the IEEE-754 binary32 fields that name it       *)
(* exactly (kind "f32").                                                   *)
(***************************************************************************)
EXTENDS Integers, Sequences, FiniteSets, TLC

VARIABLES
    pc,        \* position of main: "start", "menu" (at the choice prompt), "change"
               \* (at the key prompt of change_value), "loop" and "change_loop" (a
               \* command has ended and its loop is about to prompt again), "closed",
               \* "crashed" (an exception left main); in the codec harness "encode",
               \* "decode", "done"
    holding,   \* the controller's holding registers: address -> 16-bit word
    connected, \* TRUE from client.connect() until client.close()
    calls,     \* the transport calls of the latest command, in order, with responses
    outcomes,  \* what the latest read_all_values printed, in order
    errlog,    \* addresses of the logging.error lines of read_*/write_* (latest command)
    last,      \* the latest command, its inputs and how it ended
    probe      \* the codec harness's input value and decoded result

vars == <<pc, holding, connected, calls, outcomes, errlog, last, probe>>

----------------------------------------------------------------------------
(* Bounds of the model                                                     *)

\* A read response carries 0..MaxRespLen words (2 is the well-formed length).
MaxRespLen == 3

\* At most MaxFaults of the reads of one batch get a response other than
\* a well-formed one.
MaxFaults == 2

\* float literals of the model have binary exponents in -MaxBinExp..MaxBinExp.
MaxBinExp == 8

----------------------------------------------------------------------------
(* Register map, src/main.py:13-19                                         *)

\* dict iteration order of `registers`
RegisterKeys == <<"state", "sptw", "sptwh", "spp", "ni">>

registers ==
    [k \in {RegisterKeys[i] : i \in 1..Len(RegisterKeys)} |->
        CASE k = "state" -> [address |-> 30, type |-> "uint32", length |-> 2, access |-> "rw"]
          [] k = "sptw"  -> [address |-> 32, type |-> "float",  length |-> 2, access |-> "rw"]
          [] k = "sptwh" -> [address |-> 34, type |-> "float",  length |-> 2, access |-> "rw"]
          [] k = "spp"   -> [address |-> 36, type |-> "uint32", length |-> 2, access |-> "rw"]
          [] k = "ni"    -> [address |-> 38, type |-> "uint32", length |-> 2, access |-> "rw"]]

\* the holding-register addresses the map covers
Addresses == UNION {{registers[k].address + j : j \in 0..(registers[k].length - 1)} :
                    k \in DOMAIN registers}

----------------------------------------------------------------------------
(* Python integers and their operators                                     *)

Word == 65536

\* a small int as a two-limb Python int
BigInt(hi, lo) == [hi |-> hi, lo |-> lo]

\* value >> 16 (floor shift; the result fits a TLC integer for the inputs used)
ShiftRight16(v) == v.hi

\* n & 0xFFFF for an int n of either sign: Python's & works on the infinite
\* two's complement, so the result is n modulo 2^16
And0xFFFF(n) == n % Word

\* value & 0xFFFF on a two-limb int
LowWord(v) == And0xFFFF(v.lo)

\* a | b for 0 <= a, b
RECURSIVE BitOr(_, _)
BitOr(a, b) ==
    IF a = 0 /\ b = 0 THEN 0
    ELSE (IF a % 2 = 1 \/ b % 2 = 1 THEN 1 ELSE 0) + 2 * BitOr(a \div 2, b \div 2)

\* (w0 << 16) | w1 for 0 <= w0 and 0 <= w1: the low limb of w0 << 16 is 0
ShiftLeft16Or(w0, w1) == BigInt(BitOr(w0, w1 \div Word), BitOr(0, w1 % Word))

Digits == {"0", "1", "2", "3", "4", "5", "6", "7", "8", "9"}

DigitVal(c) ==
    CASE c = "0" -> 0 [] c = "1" -> 1 [] c = "2" -> 2 [] c = "3" -> 3 [] c = "4" -> 4
      [] c = "5" -> 5 [] c = "6" -> 6 [] c = "7" -> 7 [] c = "8" -> 8 [] c = "9" -> 9

CharAt(s, i) == SubSeq(s, i, i)

AllDigits(s) == Len(s) > 0 /\ \A i \in 1..Len(s) : CharAt(s, i) \in Digits

\* the magnitude of a digit string, limb by limb (Horner)
RECURSIVE Magnitude(_, _)
Magnitude(s, acc) ==
    IF Len(s) = 0 THEN acc
    ELSE LET t == acc.lo * 10 + DigitVal(CharAt(s, 1))
         IN Magnitude(Tail(s), BigInt(acc.hi * 10 + t \div Word, t % Word))

Negate(v) == IF v.lo = 0 THEN BigInt(-v.hi, 0) ELSE BigInt(-v.hi - 1, Word - v.lo)

\* int(input(...)): [ok |-> FALSE] stands for the ValueError int() raises
IntParse(s) ==
    LET signed == Len(s) > 0 /\ CharAt(s, 1) \in {"+", "-"}
        body   == IF signed THEN Tail(s) ELSE s
        mag    == Magnitude(body, BigInt(0, 0))
    IN IF ~AllDigits(body) THEN [ok |-> FALSE, value |-> BigInt(0, 0)]
       ELSE [ok |-> TRUE,
             value |-> IF signed /\ CharAt(s, 1) = "-" THEN Negate(mag) ELSE mag]

----------------------------------------------------------------------------
(* Python floats, struct.pack and struct.unpack                            *)

RECURSIVE Pow2(_)
Pow2(n) == IF n = 0 THEN 1 ELSE 2 * Pow2(n - 1)

RECURSIVE Pow10(_)
Pow10(n) == IF n = 0 THEN 1 ELSE 10 * Pow10(n - 1)

RECURSIVE DigitsValue(_, _)
DigitsValue(s, acc) ==
    IF Len(s) = 0 THEN acc ELSE DigitsValue(Tail(s), acc * 10 + DigitVal(CharAt(s, 1)))

\* position of the first "." of s, or 0
DotAt(s) ==
    IF \E i \in 1..Len(s) : CharAt(s, i) = "."
    THEN CHOOSE i \in 1..Len(s) :
            CharAt(s, i) = "." /\ \A j \in 1..(i - 1) : CharAt(s, j) # "."
    ELSE 0

DecFloat(neg, num, den) == [kind |-> "dec", neg |-> neg, num |-> num, den |-> den,
                            sign |-> 0, exp |-> 0, frac |-> 0]

F32Float(sign, exp, frac) == [kind |-> "f32", neg |-> FALSE, num |-> 0, den |-> 1,
                              sign |-> sign, exp |-> exp, frac |-> frac]

\* float(input(...)) on the literals [sign] digits [ "." digits ] (no exponent,
\* "inf" or "nan", and small enough for NearestBinary32);
\* [ok |-> FALSE] stands for the ValueError float() raises
FloatParse(s) ==
    LET signed == Len(s) > 0 /\ CharAt(s, 1) \in {"+", "-"}
        body   == IF signed THEN Tail(s) ELSE s
        dot    == DotAt(body)
        ipart  == IF dot = 0 THEN body ELSE SubSeq(body, 1, dot - 1)
        fpart  == IF dot = 0 THEN "" ELSE SubSeq(body, dot + 1, Len(body))
        wellformed ==
            /\ Len(ipart) + Len(fpart) > 0
            /\ \A i \in 1..Len(ipart) : CharAt(ipart, i) \in Digits
            /\ \A i \in 1..Len(fpart) : CharAt(fpart, i) \in Digits
    IN IF ~wellformed THEN [ok |-> FALSE, value |-> DecFloat(FALSE, 0, 1)]
       ELSE [ok |-> TRUE,
             value |-> DecFloat(signed /\ CharAt(s, 1) = "-",
                                DigitsValue(fpart, DigitsValue(ipart, 0)),
                                Pow10(Len(fpart)))]

\* the binary32 nearest to num / den > 0 (round to nearest, ties to even)
NearestBinary32(neg, num, den) ==
    LET e  == CHOOSE x \in (-MaxBinExp)..MaxBinExp :
                 IF x >= 0 THEN den * Pow2(x) <= num /\ num < den * Pow2(x + 1)
                 ELSE den <= num * Pow2(-x) /\ num * Pow2(-x) < 2 * den
        scaled == num * Pow2(23 - e)
        q  == scaled \div den
        r  == scaled % den
        m  == IF 2 * r > den \/ (2 * r = den /\ q % 2 = 1) THEN q + 1 ELSE q
        s  == IF neg THEN 1 ELSE 0
    IN IF m = Pow2(24) THEN [sign |-> s, exp |-> e + 128, frac |-> 0]
       ELSE [sign |-> s, exp |-> e + 127, frac |-> m - Pow2(23)]

\* the IEEE-754 binary32 fields struct.pack('>f', value) stores
Binary32Of(value) ==
    IF value.kind = "f32" THEN [sign |-> value.sign, exp |-> value.exp, frac |-> value.frac]
    ELSE IF value.num = 0 THEN [sign |-> IF value.neg THEN 1 ELSE 0, exp |-> 0, frac |-> 0]
    ELSE NearestBinary32(value.neg, value.num, value.den)

\* struct.pack('>f', value): four bytes, most significant first
pack_f(value) ==
    LET b == Binary32Of(value)
    IN << b.sign * 128 + b.exp \div 2,
          (b.exp % 2) * 128 + b.frac \div 65536,
          (b.frac \div 256) % 256,
          b.frac % 256 >>

\* struct.unpack('>HH', byte_string)
unpack_HH(bytes) == << bytes[1] * 256 + bytes[2], bytes[3] * 256 + bytes[4] >>

\* struct.pack('>HH', w0, w1)
pack_HH(w0, w1) == << w0 \div 256, w0 % 256, w1 \div 256, w1 % 256 >>

\* struct.unpack('>f', byte_string)[0]
unpack_f(bytes) ==
    F32Float(bytes[1] \div 128,
             (bytes[1] % 128) * 2 + bytes[2] \div 128,
             (bytes[2] % 128) * 65536 + bytes[3] * 256 + bytes[4])

----------------------------------------------------------------------------
(* Values, results and the transport collaborator                          *)

NoInt == BigInt(0, 0)
NoFloat == F32Float(0, 0, 0)

\* a typed Python value: an int (u) or a float (f)
IntValue(v) == [type |-> "int", u |-> v, f |-> NoFloat]
FloatValue(x) == [type |-> "float", u |-> NoInt, f |-> x]
NoValue == [type |-> "none", u |-> NoInt, f |-> NoFloat]

\* how a function ends: it returns a value, None, True or False, or an
\* exception leaves it
Returned(v) == [kind |-> "value", exc |-> "", value |-> v]
ReturnedNone == [kind |-> "none", exc |-> "", value |-> NoValue]
ReturnedBool(b) == [kind |-> IF b THEN "true" ELSE "false", exc |-> "", value |-> NoValue]
Raised(e) == [kind |-> "raise", exc |-> e, value |-> NoValue]

\* What the connection does with one request: it answers (kind "ok"; a read
\* answer carries len words), answers with isError() true (kind "err"), or
\* raises (kind "exc": pymodbus raises ConnectionException when the link is down).
Resp(kind, len) == [kind |-> kind, len |-> len]
WriteResps == {Resp("ok", 0), Resp("err", 0), Resp("exc", 0)}
ReadResps == {Resp("err", 0), Resp("exc", 0)} \cup {Resp("ok", n) : n \in 0..MaxRespLen}
WellFormed(resp) == resp.kind = "ok" /\ resp.len = 2

\* one call on the connection as the transport saw it
ReadCall(address, count, resp) ==
    [op |-> "read", address |-> address, count |-> count, words |-> <<>>, resp |-> resp]
WriteCall(address, words, resp) ==
    [op |-> "write", address |-> address, count |-> Len(words), words |-> words, resp |-> resp]

\* response.registers of a read answered with n words: the controller's words
\* from address on (0 beyond the mapped registers)
RegistersOf(mem, address, n) ==
    [i \in 1..n |-> IF address + i - 1 \in DOMAIN mem THEN mem[address + i - 1] ELSE 0]

\* the controller's registers after it accepted write_registers(address, words)
Stored(mem, address, words) ==
    [a \in DOMAIN mem |->
        IF a >= address /\ a < address + Len(words) THEN words[a - address + 1] ELSE mem[a]]

\* what a call of a read_* / write_* function leaves behind
Effect(ret, calls_, errors, mem) ==
    [ret |-> ret, calls |-> calls_, errors |-> errors, mem |-> mem]

----------------------------------------------------------------------------
(* read_float, read_uint32, write_float, write_uint32                      *)

\* read_float with the two words taken in the opposite order
read_float_low_first(mem, address, length, resp) ==
    LET call == ReadCall(address, length, resp)
        raw_value == RegistersOf(mem, address, resp.len)
    IN IF resp.kind = "exc" THEN Effect(Raised("ConnectionException"), <<call>>, <<>>, mem)
       ELSE IF resp.kind = "err" THEN Effect(ReturnedNone, <<call>>, <<address>>, mem)
       ELSE IF Len(raw_value) < 2 THEN Effect(Raised("IndexError"), <<call>>, <<>>, mem)
       ELSE Effect(Returned(FloatValue(unpack_f(pack_HH(raw_value[2], raw_value[1])))),
                   <<call>>, <<>>, mem)

read_float(mem, address, length, resp) ==
    LET call == ReadCall(address, length, resp)
        raw_value == RegistersOf(mem, address, resp.len)
    IN IF resp.kind = "exc" THEN Effect(Raised("ConnectionException"), <<call>>, <<>>, mem)
       ELSE IF resp.kind = "err" THEN Effect(ReturnedNone, <<call>>, <<address>>, mem)
       ELSE IF Len(raw_value) < 2 THEN Effect(Raised("IndexError"), <<call>>, <<>>, mem)
       ELSE Effect(Returned(FloatValue(unpack_f(pack_HH(raw_value[1], raw_value[2])))),
                   <<call>>, <<>>, mem)

\* read_uint32 with the two words taken in the opposite order
read_uint32_low_first(mem, address, length, resp) ==
    LET call == ReadCall(address, length, resp)
        response_registers == RegistersOf(mem, address, resp.len)
    IN IF resp.kind = "exc" THEN Effect(Raised("ConnectionException"), <<call>>, <<>>, mem)
       ELSE IF resp.kind = "err" THEN Effect(ReturnedNone, <<call>>, <<address>>, mem)
       ELSE IF Len(response_registers) < 2 THEN Effect(Raised("IndexError"), <<call>>, <<>>, mem)
       ELSE Effect(Returned(IntValue(ShiftLeft16Or(response_registers[2],
                                                   response_registers[1]))),
                   <<call>>, <<>>, mem)

read_uint32(mem, address, length, resp) ==
    LET call == ReadCall(address, length, resp)
        response_registers == RegistersOf(mem, address, resp.len)
    IN IF resp.kind = "exc" THEN Effect(Raised("ConnectionException"), <<call>>, <<>>, mem)
       ELSE IF resp.kind = "err" THEN Effect(ReturnedNone, <<call>>, <<address>>, mem)
       ELSE IF Len(response_registers) < 2 THEN Effect(Raised("IndexError"), <<call>>, <<>>, mem)
       ELSE Effect(Returned(IntValue(ShiftLeft16Or(response_registers[1],
                                                   response_registers[2]))),
                   <<call>>, <<>>, mem)

write_float(mem, address, value, resp) ==
    LET byte_string == pack_f(value)
        register_values == unpack_HH(byte_string)
        call == WriteCall(address, register_values, resp)
    IN IF resp.kind = "exc" THEN Effect(Raised("ConnectionException"), <<call>>, <<>>, mem)
       ELSE IF resp.kind = "err" THEN Effect(ReturnedBool(FALSE), <<call>>, <<address>>, mem)
       ELSE Effect(ReturnedBool(TRUE), <<call>>, <<>>, Stored(mem, address, register_values))

\* write_uint32 sending the low word first
write_uint32_low_first(mem, address, value, resp) ==
    LET register_values == << LowWord(value), And0xFFFF(ShiftRight16(value)) >>
        call == WriteCall(address, register_values, resp)
    IN IF resp.kind = "exc" THEN Effect(Raised("ConnectionException"), <<call>>, <<>>, mem)
       ELSE IF resp.kind = "err" THEN Effect(ReturnedBool(FALSE), <<call>>, <<address>>, mem)
       ELSE Effect(ReturnedBool(TRUE), <<call>>, <<>>, Stored(mem, address, register_values))

write_uint32(mem, address, value, resp) ==
    LET register_values == << And0xFFFF(ShiftRight16(value)), LowWord(value) >>
        call == WriteCall(address, register_values, resp)
    IN IF resp.kind = "exc" THEN Effect(Raised("ConnectionException"), <<call>>, <<>>, mem)
       ELSE IF resp.kind = "err" THEN Effect(ReturnedBool(FALSE), <<call>>, <<address>>, mem)
       ELSE Effect(ReturnedBool(TRUE), <<call>>, <<>>, Stored(mem, address, register_values))

----------------------------------------------------------------------------
(* read_all_values, change_value, control_heating                          *)

\* one line printed by read_all_values: the value, or "Failed to read"
Outcome(key, ret) ==
    [key |-> key, address |-> registers[key].address, ok |-> ret.kind = "value",
     value |-> ret.value]

Batch(ret, calls_, errors, outcomes_) ==
    [ret |-> ret, calls |-> calls_, errors |-> errors, outcomes |-> outcomes_]

\* the for loop of read_all_values from the i-th register on; resps[i] is what
\* the connection does with the i-th register's read
RECURSIVE ReadLoop(_, _, _, _)
ReadLoop(mem, i, resps, acc) ==
    IF i > Len(RegisterKeys) THEN acc
    ELSE LET key == RegisterKeys[i]
             reg == registers[key]
         IN IF reg.access \notin {"r", "rw"} THEN ReadLoop(mem, i + 1, resps, acc)
            ELSE LET e == IF reg.type = "float"
                          THEN read_float(mem, reg.address, reg.length, resps[i])
                          ELSE read_uint32(mem, reg.address, reg.length, resps[i])
                 IN IF e.ret.kind = "raise"
                    THEN Batch(e.ret, acc.calls \o e.calls, acc.errors \o e.errors,
                               acc.outcomes)
                    ELSE ReadLoop(mem, i + 1, resps,
                                  Batch(acc.ret, acc.calls \o e.calls,
                                        acc.errors \o e.errors,
                                        Append(acc.outcomes, Outcome(key, e.ret))))

read_all_values(mem, resps) == ReadLoop(mem, 1, resps, Batch(ReturnedNone, <<>>, <<>>, <<>>))

\* how a command ended, for main
Ended(ret, outcome, calls_, errors, mem, prompted) ==
    [ret |-> ret, outcome |-> outcome, calls |-> calls_, errors |-> errors, mem |-> mem,
     prompted |-> prompted]

\* line 87
IsWritableKey(reg_key) == reg_key \in DOMAIN registers /\ registers[reg_key].access = "rw"

\* change_value taking a value text that does not parse as 0 and writing it
change_value_zero_on_bad_text(mem, reg_key, text, resp) ==
    IF reg_key = "q" THEN Ended(ReturnedNone, "quit", <<>>, <<>>, mem, FALSE)
    ELSE IF ~IsWritableKey(reg_key)
    THEN Ended(ReturnedNone, "Invalid key", <<>>, <<>>, mem, FALSE)
    ELSE LET reg == registers[reg_key]
             value == IF reg.type = "float"
                      THEN FloatValue(FloatParse(text).value)
                      ELSE IntValue(IntParse(text).value)
             e == IF reg.type = "float"
                  THEN write_float(mem, reg.address, value.f, resp)
                  ELSE write_uint32(mem, reg.address, value.u, resp)
         IN IF e.ret.kind = "raise"
            THEN Ended(e.ret, "", e.calls, e.errors, e.mem, TRUE)
            ELSE IF e.ret.kind = "true"
            THEN Ended(ReturnedNone, "Successfully updated", e.calls, e.errors, e.mem, TRUE)
            ELSE Ended(ReturnedNone, "Failed to update", e.calls, e.errors, e.mem, TRUE)

\* One pass of the while loop of change_value: the key read at line 84, the
\* value text read at line 93 or 95 (prompted says whether it was asked for),
\* and the answer of the connection to the write, if one is issued.
change_value(mem, reg_key, text, resp) ==
    IF reg_key = "q" THEN Ended(ReturnedNone, "quit", <<>>, <<>>, mem, FALSE)
    ELSE IF ~IsWritableKey(reg_key)
    THEN Ended(ReturnedNone, "Invalid key", <<>>, <<>>, mem, FALSE)
    ELSE LET reg == registers[reg_key]
             parsed == IF reg.type = "float"
                       THEN [ok |-> FloatParse(text).ok,
                             value |-> FloatValue(FloatParse(text).value)]
                       ELSE [ok |-> IntParse(text).ok,
                             value |-> IntValue(IntParse(text).value)]
             e == IF reg.type = "float"
                  THEN write_float(mem, reg.address, parsed.value.f, resp)
                  ELSE write_uint32(mem, reg.address, parsed.value.u, resp)
         IN IF ~parsed.ok
            THEN Ended(Raised("ValueError"), "", <<>>, <<>>, mem, TRUE)
            ELSE IF e.ret.kind = "raise"
            THEN Ended(e.ret, "", e.calls, e.errors, e.mem, TRUE)
            ELSE IF e.ret.kind = "true"
            THEN Ended(ReturnedNone, "Successfully updated", e.calls, e.errors, e.mem, TRUE)
            ELSE Ended(ReturnedNone, "Failed to update", e.calls, e.errors, e.mem, TRUE)

\* control_heating reporting success once the power write succeeded
control_heating_ignoring_state_write(mem, power_text, state_text, resp1, resp2) ==
    LET target_power == IntParse(power_text)
        system_state == IntParse(state_text)
        w1 == write_uint32(mem, registers["spp"].address, target_power.value, resp1)
        w2 == write_uint32(w1.mem, registers["state"].address, system_state.value, resp2)
    IN IF ~target_power.ok
       THEN Ended(ReturnedNone, "Invalid input", <<>>, <<>>, mem, FALSE)
       ELSE IF ~system_state.ok
       THEN Ended(ReturnedNone, "Invalid input", <<>>, <<>>, mem, TRUE)
       ELSE IF w1.ret.kind = "raise"
       THEN Ended(w1.ret, "", w1.calls, w1.errors, w1.mem, TRUE)
       ELSE IF w1.ret.kind = "false"
       THEN Ended(ReturnedNone, "", w1.calls, w1.errors, w1.mem, TRUE)
       ELSE IF w2.ret.kind = "raise"
       THEN Ended(w2.ret, "", w1.calls \o w2.calls, w1.errors \o w2.errors, w2.mem, TRUE)
       ELSE Ended(ReturnedNone, "Updated heating system", w1.calls \o w2.calls,
                  w1.errors \o w2.errors, w2.mem, TRUE)

\* control_heating issuing the state write whatever the power write returned
\* (both operands of the condition evaluated)
control_heating_without_short_circuit(mem, power_text, state_text, resp1, resp2) ==
    LET target_power == IntParse(power_text)
        system_state == IntParse(state_text)
        w1 == write_uint32(mem, registers["spp"].address, target_power.value, resp1)
        w2 == write_uint32(w1.mem, registers["state"].address, system_state.value, resp2)
    IN IF ~target_power.ok
       THEN Ended(ReturnedNone, "Invalid input", <<>>, <<>>, mem, FALSE)
       ELSE IF ~system_state.ok
       THEN Ended(ReturnedNone, "Invalid input", <<>>, <<>>, mem, TRUE)
       ELSE IF w1.ret.kind = "raise"
       THEN Ended(w1.ret, "", w1.calls, w1.errors, w1.mem, TRUE)
       ELSE IF w2.ret.kind = "raise"
       THEN Ended(w2.ret, "", w1.calls \o w2.calls, w1.errors \o w2.errors, w2.mem, TRUE)
       ELSE IF w1.ret.kind = "false" \/ w2.ret.kind = "false"
       THEN Ended(ReturnedNone, "", w1.calls \o w2.calls, w1.errors \o w2.errors, w2.mem, TRUE)
       ELSE Ended(ReturnedNone, "Updated heating system", w1.calls \o w2.calls,
                  w1.errors \o w2.errors, w2.mem, TRUE)

\* control_heating: the two texts read at lines 111 and 112 (prompted says
\* whether the second was asked for) and the connection's answers to the
\* power write and to the state write, if issued.
control_heating(mem, power_text, state_text, resp1, resp2) ==
    LET target_power == IntParse(power_text)
        system_state == IntParse(state_text)
        w1 == write_uint32(mem, registers["spp"].address, target_power.value, resp1)
        w2 == write_uint32(w1.mem, registers["state"].address, system_state.value, resp2)
    IN IF ~target_power.ok
       THEN Ended(ReturnedNone, "Invalid input", <<>>, <<>>, mem, FALSE)
       ELSE IF ~system_state.ok
       THEN Ended(ReturnedNone, "Invalid input", <<>>, <<>>, mem, TRUE)
       ELSE IF w1.ret.kind = "raise"
       THEN Ended(w1.ret, "", w1.calls, w1.errors, w1.mem, TRUE)
       ELSE IF w1.ret.kind = "false"
       THEN Ended(ReturnedNone, "", w1.calls, w1.errors, w1.mem, TRUE)
       ELSE IF w2.ret.kind = "raise"
       THEN Ended(w2.ret, "", w1.calls \o w2.calls, w1.errors \o w2.errors, w2.mem, TRUE)
       ELSE IF w2.ret.kind = "false"
       THEN Ended(ReturnedNone, "", w1.calls \o w2.calls, w1.errors \o w2.errors, w2.mem, TRUE)
       ELSE Ended(ReturnedNone, "Updated heating system", w1.calls \o w2.calls,
                  w1.errors \o w2.errors, w2.mem, TRUE)

----------------------------------------------------------------------------
(* What the user types and what the connection answers                     *)

KeyTexts == {RegisterKeys[i] : i \in 1..Len(RegisterKeys)} \cup {"bogus", "q"}
IntTexts == {"1", "4294967295", "-1", "4294967296", "abc"}
FloatTexts == {"36.5", "abc"}
OtherChoices == {"5", ""}

\* the texts offered at the value prompt of a register
ValueTexts(reg_key) ==
    IF reg_key \in DOMAIN registers /\ registers[reg_key].type = "float"
    THEN FloatTexts ELSE IntTexts

\* the answers to the reads of one batch: well-formed ones, but for at most
\* MaxFaults of the reads
BatchResps ==
    UNION {{[i \in 1..Len(RegisterKeys) |-> IF i \in faulty THEN g[i] ELSE Resp("ok", 2)] :
                g \in [faulty -> {r \in ReadResps : ~WellFormed(r)}]} :
           faulty \in {f \in SUBSET (1..Len(RegisterKeys)) : Cardinality(f) <= MaxFaults}}

ZeroMemory == [a \in Addresses |-> 0]

Last(cmd, key, text, text2, outcome, exc) ==
    [cmd |-> cmd, key |-> key, text |-> text, text2 |-> text2, outcome |-> outcome,
     exc |-> exc]

NoProbe == [key |-> "", value |-> NoValue, out |-> NoValue]

----------------------------------------------------------------------------
(* main                                                                    *)

Init ==
    /\ pc = "start"
    /\ holding = ZeroMemory
    /\ connected = FALSE
    /\ calls = <<>>
    /\ outcomes = <<>>
    /\ errlog = <<>>
    /\ last = Last("none", "", "", "", "", "")
    /\ probe = NoProbe

\* lines 121-125: connect, then the initial read_all_values
Start ==
    /\ pc = "start"
    /\ \E resps \in BatchResps :
       \E b \in {read_all_values(holding, resps)} :
            /\ pc' = IF b.ret.kind = "raise" THEN "crashed" ELSE "loop"
            /\ calls' = b.calls
            /\ outcomes' = b.outcomes
            /\ errlog' = b.errors
            /\ last' = Last("initial", "", "", "", "", b.ret.exc)
    /\ connected' = TRUE
    /\ UNCHANGED <<holding, probe>>

\* choice '1', lines 140-142
MonitorValues ==
    /\ pc = "menu"
    /\ \E resps \in BatchResps :
       \E b \in {read_all_values(holding, resps)} :
            /\ pc' = IF b.ret.kind = "raise" THEN "crashed" ELSE "loop"
            /\ calls' = b.calls
            /\ outcomes' = b.outcomes
            /\ errlog' = b.errors
            /\ last' = Last("monitor", "", "", "", "", b.ret.exc)
    /\ UNCHANGED <<holding, connected, probe>>

\* choice '2', lines 143-144 and 78-81: change_value lists the registers
EnterChangeValue ==
    /\ pc = "menu"
    /\ pc' = "change"
    /\ calls' = <<>>
    /\ outcomes' = <<>>
    /\ errlog' = <<>>
    /\ last' = Last("list", "", "", "", "", "")
    /\ UNCHANGED <<holding, connected, probe>>

\* one pass of the loop of change_value, lines 83-106
ChangeValue ==
    /\ pc = "change"
    /\ \E reg_key \in KeyTexts : \E text \in ValueTexts(reg_key) : \E resp \in WriteResps :
       \E c \in {change_value(holding, reg_key, text, resp)} :
            /\ pc' = IF c.ret.kind = "raise" THEN "crashed"
                     ELSE IF c.outcome = "quit" THEN "loop" ELSE "change_loop"
            /\ holding' = c.mem
            /\ calls' = c.calls
            /\ errlog' = c.errors
            /\ last' = Last("change", reg_key, IF c.prompted THEN text ELSE "", "",
                            c.outcome, c.ret.exc)
    /\ outcomes' = <<>>
    /\ UNCHANGED <<connected, probe>>

\* choice '3', lines 145-146
ControlHeating ==
    /\ pc = "menu"
    /\ \E power_text \in IntTexts : \E state_text \in IntTexts :
       \E resp1 \in WriteResps : \E resp2 \in WriteResps :
       \E c \in {control_heating(holding, power_text, state_text, resp1, resp2)} :
            /\ pc' = IF c.ret.kind = "raise" THEN "crashed" ELSE "loop"
            /\ holding' = c.mem
            /\ calls' = c.calls
            /\ errlog' = c.errors
            /\ last' = Last("heating", "", power_text, IF c.prompted THEN state_text ELSE "",
                            c.outcome, c.ret.exc)
    /\ outcomes' = <<>>
    /\ UNCHANGED <<connected, probe>>

\* choice '4', lines 147-148 and 152: leave the loop and close the connection
Exit ==
    /\ pc = "menu"
    /\ pc' = "closed"
    /\ connected' = FALSE
    /\ calls' = <<>>
    /\ outcomes' = <<>>
    /\ errlog' = <<>>
    /\ last' = Last("exit", "", "", "", "", "")
    /\ UNCHANGED <<holding, probe>>

\* any other choice, lines 149-150
InvalidChoice ==
    /\ pc = "menu"
    /\ \E choice \in OtherChoices :
         last' = Last("invalid", "", choice, "", "Invalid choice", "")
    /\ pc' = "loop"
    /\ calls' = <<>>
    /\ outcomes' = <<>>
    /\ errlog' = <<>>
    /\ UNCHANGED <<holding, connected, probe>>

\* lines 134-138: the loop of main comes round and prompts for a choice; what
\* the previous command showed scrolls away
ShowMenu ==
    /\ pc = "loop"
    /\ pc' = "menu"
    /\ calls' = <<>>
    /\ outcomes' = <<>>
    /\ errlog' = <<>>
    /\ last' = Last("none", "", "", "", "", "")
    /\ UNCHANGED <<holding, connected, probe>>

\* lines 83-84: the loop of change_value comes round and prompts for a key
PromptKey ==
    /\ pc = "change_loop"
    /\ pc' = "change"
    /\ calls' = <<>>
    /\ outcomes' = <<>>
    /\ errlog' = <<>>
    /\ last' = Last("list", "", "", "", "", "")
    /\ UNCHANGED <<holding, connected, probe>>

Next ==
    \/ Start
    \/ ShowMenu
    \/ PromptKey
    \/ MonitorValues
    \/ EnterChangeValue
    \/ ChangeValue
    \/ ControlHeating
    \/ Exit
    \/ InvalidChoice

Spec == Init /\ [][Next]_vars

----------------------------------------------------------------------------
(* Codec harness: a value is written through write_uint32 / write_float    *)
(* to a controller that stores it, and read back through read_uint32 /     *)
(* read_float.                                                             *)

Boundary16 == {0, 1, 255, 256, 32767, 32768, 65535}

\* ints around the edges of the two words, and just outside [0, 2^32 - 1]
ProbeInts == {BigInt(h, l) : h \in Boundary16 \cup {-1, 65536}, l \in Boundary16}

\* finite binary32 values: zeros, subnormals, normals, the largest finite ones
ProbeFloats ==
    {F32Float(sg, e, fr) : sg \in {0, 1}, e \in {0, 1, 127, 128, 254},
                           fr \in {0, 1, 65535, 65536, 4194304, 8388607}}

ProbeValues(reg_key) ==
    IF registers[reg_key].type = "float"
    THEN {FloatValue(x) : x \in ProbeFloats}
    ELSE {IntValue(v) : v \in ProbeInts}

InitCodec ==
    /\ pc = "encode"
    /\ holding = ZeroMemory
    /\ connected = TRUE
    /\ calls = <<>>
    /\ outcomes = <<>>
    /\ errlog = <<>>
    /\ last = Last("none", "", "", "", "", "")
    /\ \E reg_key \in DOMAIN registers : \E v \in ProbeValues(reg_key) :
         probe = [key |-> reg_key, value |-> v, out |-> NoValue]

CodecWrite ==
    /\ pc = "encode"
    /\ \E e \in {IF registers[probe.key].type = "float"
                 THEN write_float(holding, registers[probe.key].address, probe.value.f,
                                  Resp("ok", 0))
                 ELSE write_uint32(holding, registers[probe.key].address, probe.value.u,
                                   Resp("ok", 0))} :
         /\ holding' = e.mem
         /\ calls' = e.calls
    /\ pc' = "decode"
    /\ UNCHANGED <<connected, outcomes, errlog, last, probe>>

CodecRead ==
    /\ pc = "decode"
    /\ \E e \in {IF registers[probe.key].type = "float"
                 THEN read_float(holding, registers[probe.key].address,
                                 registers[probe.key].length, Resp("ok", 2))
                 ELSE read_uint32(holding, registers[probe.key].address,
                                  registers[probe.key].length, Resp("ok", 2))} :
         /\ probe' = [probe EXCEPT !.out = e.ret.value]
         /\ calls' = calls \o e.calls
    /\ pc' = "done"
    /\ UNCHANGED <<holding, connected, outcomes, errlog, last>>

NextCodec == CodecWrite \/ CodecRead

SpecCodec == InitCodec /\ [][NextCodec]_vars

----------------------------------------------------------------------------
(* Properties                                                              *)

\* v lies in [0, 2^32 - 1]
InRange32(v) == v.hi >= 0 /\ v.hi <= 65535 /\ v.lo >= 0 /\ v.lo <= 65535

\* a read_all_values has just run (from Start or from the menu)
BatchRan == last.cmd \in {"initial", "monitor"}

\* the value the i-th register holds, decoded from the controller's two words
\* by the bit layout of its wire type
HeldValue(i) ==
    LET reg == registers[RegisterKeys[i]]
        w0  == holding[reg.address]
        w1  == holding[reg.address + 1]
    IN IF reg.type = "float"
       THEN FloatValue(F32Float(w0 \div 32768, (w0 \div 128) % 256, (w0 % 128) * 65536 + w1))
       ELSE IntValue(BigInt(w0, w1))

\* the latest change_value request named a catalog key that is writable
EditOfRegister == last.cmd = "change" /\ last.key \in DOMAIN registers
                  /\ registers[last.key].access = "rw"

\* ... and its value text parses as the register's type
EditTextParses ==
    IF registers[last.key].type = "float" THEN FloatParse(last.text).ok
    ELSE IntParse(last.text).ok

\* the latest control_heating got two texts that parse as integers
HeatingParsed == last.cmd = "heating" /\ IntParse(last.text).ok /\ IntParse(last.text2).ok

IsWriteTo(call, address) == call.op = "write" /\ call.address = address

\* C1: a batch read yields exactly one outcome per readable register, in
\* catalog order, whatever the connection does with each read (answer, error
\* answer, exception, wrong number of words): a well-formed answer gives that
\* register's value and anything else gives a failure outcome for that
\* register only.
C1_BatchIndependentPerRegister ==
    BatchRan =>
        /\ Len(outcomes) = Len(RegisterKeys)
        /\ Len(calls) = Len(RegisterKeys)
        /\ \A i \in 1..Len(RegisterKeys) :
             /\ outcomes[i].key = RegisterKeys[i]
             /\ WellFormed(calls[i].resp) =>
                    outcomes[i].ok /\ outcomes[i].value = HeldValue(i)
             /\ ~WellFormed(calls[i].resp) => ~outcomes[i].ok

\* The failures C2 lists: an edit whose value text does not parse, an edit of
\* an unknown key, a heating request with a non-numeric text, a transport
\* answer flagged as an error.
ListedFailure ==
    \/ EditOfRegister /\ ~EditTextParses
    \/ last.cmd = "change" /\ last.key \notin DOMAIN registers /\ last.key # "q"
    \/ last.cmd = "heating" /\ ~IntParse(last.text).ok
    \/ last.cmd = "heating" /\ IntParse(last.text).ok /\ ~IntParse(last.text2).ok
    \/ \E i \in 1..Len(calls) : calls[i].resp.kind = "err"

\* the connection raised, or answered a read with a wrong number of words
OtherFault ==
    \E i \in 1..Len(calls) :
        \/ calls[i].resp.kind = "exc"
        \/ calls[i].op = "read" /\ calls[i].resp.kind = "ok" /\ calls[i].resp.len # 2

\* C2: no failed command ends the session: after a command that failed in one
\* of the listed ways control is back in a loop of the menu, and the session
\* is over only after the exit choice closed the connection.
C2_FailedCommandKeepsSession ==
    /\ (ListedFailure /\ ~OtherFault) => pc \in {"loop", "change_loop"}
    /\ pc = "closed" => last.cmd = "exit" /\ ~connected

\* C3: an edit that fails validation (key absent or not writable, or a value
\* text that does not parse as the register's type) makes no call on the
\* connection and ends in a failure, not in success.
C3_InvalidEditMakesNoCall ==
    /\ (last.cmd = "change" /\ last.key # "q" /\ ~EditOfRegister) =>
           /\ calls = <<>>
           /\ last.outcome = "Invalid key"
           /\ last.exc = ""
    /\ (EditOfRegister /\ ~EditTextParses) =>
           /\ calls = <<>>
           /\ last.outcome # "Successfully updated"
           /\ last.exc = "ValueError"

C3_Witness ==
    /\ last.cmd = "change" /\ last.key = "sptw" /\ last.text = "abc"
    /\ calls = <<>>
    /\ last.exc = "ValueError"

\* C4: a valid edit of a UInt32 register with v in [0, 2^32 - 1] makes exactly
\* one call, write_registers at the register's address with the words
\* [v >> 16, v & 0xFFFF], and reports success exactly when the answer is not
\* an error.
C4_ValidEditIsOneWrite ==
    (/\ EditOfRegister
     /\ registers[last.key].type = "uint32"
     /\ IntParse(last.text).ok
     /\ InRange32(IntParse(last.text).value)) =>
        /\ Len(calls) = 1
        /\ calls[1].op = "write"
        /\ calls[1].address = registers[last.key].address
        /\ calls[1].words = << IntParse(last.text).value.hi, IntParse(last.text).value.lo >>
        /\ (last.outcome = "Successfully updated") <=> (calls[1].resp.kind = "ok")
        /\ (last.key = "state" /\ last.text = "1") =>
               calls[1].address = 30 /\ calls[1].words = <<0, 1>>

C4_Witness ==
    /\ last.cmd = "change" /\ last.key = "state" /\ last.text = "1"
    /\ calls = << WriteCall(30, <<0, 1>>, Resp("ok", 0)) >>
    /\ last.outcome = "Successfully updated"
    /\ holding[30] = 0 /\ holding[31] = 1

\* C5: UInt32 encode and decode are inverses: v in [0, 2^32 - 1] written and
\* read back is v again, both words lie in [0, 65535] and the result lies in
\* [0, 2^32 - 1].
C5_UInt32RoundTrip ==
    (pc = "done" /\ probe.value.type = "int" /\ InRange32(probe.value.u)) =>
        /\ \A j \in 1..2 : calls[1].words[j] >= 0 /\ calls[1].words[j] <= 65535
        /\ calls[1].words = << probe.value.u.hi, probe.value.u.lo >>
        /\ probe.out = probe.value
        /\ InRange32(probe.out.u)

C5_Witness ==
    /\ pc = "done"
    /\ probe.value = IntValue(BigInt(32768, 255))
    /\ calls[1].words = <<32768, 255>>
    /\ probe.out = IntValue(BigInt(32768, 255))

\* C6: the UInt32 write path rejects a value outside [0, 2^32 - 1]: no words
\* are sent and the edit does not succeed.
C6_OutOfRangeIsRejected ==
    (/\ EditOfRegister
     /\ registers[last.key].type = "uint32"
     /\ IntParse(last.text).ok
     /\ ~InRange32(IntParse(last.text).value)) =>
        /\ calls = <<>>
        /\ last.outcome # "Successfully updated"

\* C7: control_heating reports success if and only if the write to the power
\* register (36) and the write to the state register (30) were both answered
\* without error; when the power write succeeded and the state write failed
\* the result is not success, the power register holds the new words, and no
\* further write follows.
C7_HeatingSucceedsIffBothWritesDo ==
    last.cmd = "heating" =>
        LET okAt(a) == \E i \in 1..Len(calls) :
                          IsWriteTo(calls[i], a) /\ calls[i].resp.kind = "ok"
        IN /\ (last.outcome = "Updated heating system") <=> (okAt(36) /\ okAt(30))
           /\ (okAt(36) /\ ~okAt(30)) =>
                 /\ last.outcome # "Updated heating system"
                 /\ IsWriteTo(calls[1], 36)
                 /\ holding[36] = calls[1].words[1]
                 /\ holding[37] = calls[1].words[2]
                 /\ Len(calls) = 2
                 /\ IsWriteTo(calls[2], 30)

C7_Witness ==
    /\ last.cmd = "heating" /\ last.text = "1" /\ last.text2 = "1"
    /\ Len(calls) = 2
    /\ calls[1].resp.kind = "ok"
    /\ calls[2].resp.kind = "err"
    /\ last.outcome = ""
    /\ holding[36] = 0 /\ holding[37] = 1
    /\ pc = "loop"

\* C8 as stated: with two parseable integers control_heating issues the power
\* write (36) and then the state write (30), the state write whatever the
\* answer to the power write.
C8_StateWriteAlwaysIssued ==
    (HeatingParsed /\ \A i \in 1..Len(calls) : calls[i].resp.kind # "exc") =>
        /\ Len(calls) = 2
        /\ IsWriteTo(calls[1], 36)
        /\ IsWriteTo(calls[2], 30)

\* C8 as amended: with two parseable integers control_heating issues the power
\* write (36) first, and the state write (30) second exactly when the power
\* write was answered without error; nothing else is called, and every write
\* answered with an error is logged with its address.
C8_StateWriteOnlyAfterPowerWrite ==
    HeatingParsed =>
        /\ Len(calls) \in {1, 2}
        /\ IsWriteTo(calls[1], 36)
        /\ (Len(calls) = 2) <=> (calls[1].resp.kind = "ok")
        /\ Len(calls) = 2 => IsWriteTo(calls[2], 30)
        /\ \A i \in 1..Len(calls) :
              (calls[i].resp.kind = "err") <=>
              (\E j \in 1..Len(errlog) : errlog[j] = calls[i].address)

C8_Witness ==
    /\ HeatingParsed
    /\ Len(calls) = 1
    /\ IsWriteTo(calls[1], 36)
    /\ calls[1].resp.kind = "err"
    /\ errlog = <<36>>
    /\ pc = "loop"

\* C9: a read answered without error but with a number of words other than 2
\* ends in a failure outcome for that register: no value is decoded from the
\* words and no exception leaves the read.
C9_WrongWordCountIsFailure ==
    BatchRan =>
        \A i \in 1..Len(calls) :
            (calls[i].resp.kind = "ok" /\ calls[i].resp.len # 2) =>
                /\ last.exc = ""
                /\ i <= Len(outcomes)
                /\ ~outcomes[i].ok

\* C10: Float32 encode and decode agree on word order: the binary32 pattern b
\* of a finite float is written as the words [b >> 16, b & 0xFFFF] and read
\* back as the same pattern.
C10_Float32RoundTrip ==
    (pc = "done" /\ probe.value.type = "float") =>
        LET x == probe.value.f
        IN /\ calls[1].words = << x.sign * 32768 + x.exp * 128 + x.frac \div 65536,
                                  x.frac % 65536 >>
           /\ probe.out = probe.value

C10_Witness ==
    /\ pc = "done"
    /\ probe.value = FloatValue(F32Float(1, 254, 8388607))
    /\ calls[1].words = <<65407, 65535>>
    /\ probe.out = FloatValue(F32Float(1, 254, 8388607))

=============================================================================
